---- MODULE Spec2Model ----
(***************************************************************************)
(* FoundryService (fim-backend/src/foundry/foundry.service.ts): the        *)
(* instance orchestration core.  Every administrative call is an async     *)
(* handler; each await of the handler (a Prisma query, an external         *)
(* command, a filesystem call, an HTTP probe) is one atomic step, and the  *)
(* steps of concurrent calls interleave freely.                            *)
(***************************************************************************)
EXTENDS Integers, Sequences, FiniteSets, TLC

\* ------------------------------------------------------------------ bounds

\* Number of administrative calls made in one behaviour.
MaxCalls == 2

\* Concurrent callers (independent HTTP requests in flight).
Procs == {1, 2}

\* Arguments callers choose from.
Names == {"alpha", "beta"}
Ports == {30010, 30011}

\* Identifiers the repository hands out (cuid: fresh, never reused) and
\* container ids the engine hands out (fresh per docker run).
Ids == 1..(MaxCalls + 1)
Cids == 1..(MaxCalls + 1)

\* ------------------------------------------------------- the data model

\* FoundryInstanceStatus enum of the schema.
Statuses == {"CREATING", "RUNNING", "STOPPED", "ERROR", "DELETING"}

\* The absent row / a null result of findUnique.  cref = 0 is a NULL
\* dockerContainerId.
NoRec == [name |-> "", port |-> 0, status |-> "NONE", cref |-> 0]

\* Exceptions a handler can end with.
Errors == {"NotFoundException", "BadRequestException",
           "InternalServerErrorException", "PrismaError", "FsError"}

\* AllExceptionsFilter.catch: an HttpException keeps its status, anything
\* else is answered 500.
HttpStatusOf(e) ==
  CASE e = "NotFoundException" -> 404
    [] e = "BadRequestException" -> 400
    [] e = "InternalServerErrorException" -> 500
    [] OTHER -> 500

IsClientError(e) == HttpStatusOf(e) >= 400 /\ HttpStatusOf(e) < 500

\* --------------------------------------------------- the command executor

\* What an external process can do: exit 0 with a clean error stream, exit
\* non-zero without having done anything, or do its work and still write to
\* the error stream (or exit non-zero after a partial effect).
ProcResults ==
  { [exit |-> 0, stderr |-> FALSE, effect |-> TRUE],
    [exit |-> 1, stderr |-> TRUE, effect |-> FALSE],
    [exit |-> 0, stderr |-> TRUE, effect |-> TRUE] }

\* A command against a container the engine does not have.
NoSuchContainer == [exit |-> 1, stderr |-> TRUE, effect |-> FALSE]

\* Variant: only the exit code decides, the error stream is ignored.
ExecuteCommandThrowsOnExitOnly(r) == r.exit # 0

\* _executeCommand: execAsync rejects on a non-zero exit; a non-empty stderr
\* throws inside the try; both leave through the catch as an
\* InternalServerErrorException.  Otherwise the trimmed stdout is returned.
ExecuteCommandThrows(r) == r.exit # 0 \/ r.stderr

\* Outcomes of a repository write that the environment decides.
DbOutcomes == {"ok", "fault"}

VARIABLES
  db,          \* foundry_instances: id -> row (NoRec when absent)
  nextId,      \* next identifier the repository assigns
  containers,  \* the engine: container id -> state
  nextCid,     \* next container id the engine assigns
  madeFor,     \* container id -> id of the instance it was created for (0: none)
  calls,       \* per caller: the handler in flight and its local variables
  started      \* number of calls made so far

vars == <<db, nextId, containers, nextCid, madeFor, calls, started>>

\* A caller with no handler in flight.
IdleCall ==
  [ op |-> "none", pc |-> "idle", id |-> 0, name |-> "", port |-> 0,
    inst |-> NoRec, cid |-> 0, cur |-> "NONE", err |-> "none",
    res |-> "none", ret |-> NoRec, health |-> "none",
    cmds |-> <<>>, writes |-> <<>>, faults |-> {},
    snap |-> <<>>, hl |-> <<>>, probes |-> <<>>, execs |-> <<>> ]

\* What the service finds when it comes up: an empty table, or the row and
\* the container that an earlier createFoundryInstance("alpha", 30010) left,
\* still running, or stopped since by stopFoundry, or paused since by an
\* operator's docker pause, which the row (still RUNNING) does not show.
Seeds == {"empty", "RUNNING", "STOPPED", "PAUSED"}

\* A table that was changed behind the service's back: the row says
\* RUNNING but its dockerContainerId is null (the column is nullable and
\* nothing in the schema ties it to the status).
CorruptSeeds == {"NOREF"}

SeedRecord(seed) ==
  [name |-> "alpha", port |-> 30010,
   status |-> IF seed \in {"PAUSED", "NOREF"} THEN "RUNNING" ELSE seed,
   cref |-> IF seed = "NOREF" THEN 0 ELSE 1]

\* The engine state of the seeded container, as docker inspect prints it.
SeedContainer(seed) ==
  CASE seed = "RUNNING" -> "running"
    [] seed = "STOPPED" -> "exited"
    [] seed = "PAUSED" -> "paused"
    [] OTHER -> "none"

InitFrom(seeds) ==
  /\ \E seed \in seeds :
       /\ db = [i \in Ids |-> IF i = 1 /\ seed # "empty" THEN SeedRecord(seed) ELSE NoRec]
       /\ nextId = IF seed = "empty" THEN 1 ELSE 2
       /\ containers = [c \in Cids |->
            IF c = 1 /\ seed # "empty" THEN SeedContainer(seed) ELSE "none"]
       /\ nextCid = IF seed \in {"empty", "NOREF"} THEN 1 ELSE 2
       /\ madeFor = [c \in Cids |->
            IF c = 1 /\ seed \notin {"empty", "NOREF"} THEN 1 ELSE 0]
  /\ calls = [p \in Procs |-> IdleCall]
  /\ started = 0

Init == InitFrom(Seeds)

\* The service comes up on a table that may have been corrupted.
CorruptInit == InitFrom(Seeds \cup CorruptSeeds)

\* ------------------------------------------------------------- helpers

Exists(id) == db[id] # NoRec
Live == {i \in Ids : Exists(i)}
InFlight(p) == calls[p].pc \notin {"idle", "done"}

\* The handler returns a value.
Return(c, rec, h) ==
  [c EXCEPT !.pc = "done", !.res = "ok", !.ret = rec, !.health = h]

\* The handler ends with exception e.
Throw(c, e) == [c EXCEPT !.pc = "done", !.res = e]

\* Variant: createFoundryInstance without its rollback.
StartThrowNoRollback(c, e) == Throw(c, e)

\* Variant: every failed start deletes the row, not only the one made
\* inside createFoundryInstance.
StartThrowRollsBack(c, e) == [c EXCEPT !.pc = "c_rollback", !.err = e]

\* An exception leaving startFoundry: a standalone call ends with it; inside
\* createFoundryInstance it lands in the catch that rolls the insert back.
StartThrow(c, e) ==
  IF c.op = "create" THEN [c EXCEPT !.pc = "c_rollback", !.err = e]
  ELSE Throw(c, e)

\* What a process writes to its standard output: the text and a newline.
Stdout(text) == [lead |-> 0, text |-> text, trail |-> 1]

\* String.prototype.trim(): the white space at both ends is dropped.
Trim(out) == [out EXCEPT !.lead = 0, !.trail = 0]

\* One _executeCommand call whose process ended with r after printing text:
\* it throws, or it returns the trimmed standard output.
ExecuteCommand(r, text) ==
  [r |-> r, stdout |-> Stdout(text), threw |-> ExecuteCommandThrows(r),
   value |-> IF ExecuteCommandThrows(r) THEN <<>> ELSE << Trim(Stdout(text)) >>]

\* The call has made one more _executeCommand call.
Executed(c, r, text) == [c EXCEPT !.execs = Append(@, ExecuteCommand(r, text))]

Issue(c, cmd, arg) == [c EXCEPT !.cmds = Append(@, <<cmd, arg>>)]
Wrote(c, w) == [c EXCEPT !.writes = Append(@, w)]
Faulted(c, f) == [c EXCEPT !.faults = @ \cup {f}]

\* What the engine can answer to a command on container cid: a container it
\* does not have (never created, or removed) makes the command fail.
EngineResults(cid) ==
  IF containers[cid] \in {"none", "removed"} THEN {NoSuchContainer}
  ELSE ProcResults

\* docker start refuses a paused container ("cannot start a paused
\* container, try unpause instead"); otherwise it answers like any command.
DockerStartResults(cid) ==
  IF containers[cid] = "paused" THEN {NoSuchContainer} ELSE EngineResults(cid)

\* The calls as the next step finds them: a response that was produced by
\* the previous step has been delivered, and its caller is free again.
Delivered == [q \in Procs |-> IF calls[q].pc = "done" THEN IdleCall ELSE calls[q]]

\* --------------------------------------------------------- making a call

\* A request is taken by the first free caller.
CanCall(p) ==
  /\ ~InFlight(p)
  /\ started < MaxCalls
  /\ \A q \in Procs : q < p => InFlight(q)

\* Ids a caller can name: the ones handed out so far and one that was not.
KnownIds == {i \in Ids : i <= nextId}

Begin(p, op, first, id, n, po) ==
  /\ CanCall(p)
  /\ calls' = [Delivered EXCEPT ![p] =
       [IdleCall EXCEPT !.op = op, !.pc = first, !.id = id, !.name = n, !.port = po]]
  /\ started' = started + 1
  /\ UNCHANGED <<db, nextId, containers, nextCid, madeFor>>

\* @Min(1024) and @Max(65535) on CreateFoundryInstanceDto.port.
MinPort == 1024
MaxPort == 65535

\* Ports a caller may send that the DTO does not allow.
BadPorts == {MinPort - 1, MaxPort + 1}

\* Variant: the body is not validated.
PortAllowedAlways(po) == TRUE

\* The global ValidationPipe on the body of POST /foundry/create.
PortAllowed(po) == po >= MinPort /\ po <= MaxPort

\* The ValidationPipe answers a body it refuses with BadRequestException;
\* the controller method, and with it the service, is not called.
Refuse(p, op, n, po) ==
  /\ CanCall(p)
  /\ calls' = [Delivered EXCEPT ![p] =
       Throw([IdleCall EXCEPT !.op = op, !.name = n, !.port = po], "BadRequestException")]
  /\ started' = started + 1
  /\ UNCHANGED <<db, nextId, containers, nextCid, madeFor>>

CallCreate(p) ==
  \E n \in Names, po \in Ports \cup BadPorts :
    IF PortAllowed(po) THEN Begin(p, "create", "c_findName", 0, n, po)
    ELSE Refuse(p, "create", n, po)
CallStart(p) == \E i \in KnownIds : Begin(p, "start", "s_find", i, "", 0)
CallStop(p) == \E i \in KnownIds : Begin(p, "stop", "t_find", i, "", 0)
CallDelete(p) == \E i \in KnownIds : Begin(p, "delete", "d_find", i, "", 0)
CallStatus(p) == \E i \in KnownIds : Begin(p, "status", "g_find", i, "", 0)
CallList(p) == Begin(p, "list", "l_find", 0, "", 0)

\* ------------------------------------------------ createFoundryInstance

\* The unique indexes on name and port: the insert is refused when a row
\* already holds either.
UniqueViolation(n, po) == \E i \in Live : db[i].name = n \/ db[i].port = po


\* findUnique({ where: { name } }) finds a row.
NameTaken(n) == \E i \in Live : db[i].name = n

\* Variant: the port is not looked up before the insert.
PortTakenNever(po) == FALSE

\* findUnique({ where: { port } }) finds a row.
PortTaken(po) == \E i \in Live : db[i].port = po

\* findUnique({ where: { name } }) and the BadRequestException after it.
CreateFindName(p) ==
  LET c == calls[p] IN
  /\ c.pc = "c_findName"
  /\ calls' = [Delivered EXCEPT ![p] =
       IF NameTaken(c.name)
       THEN Throw(c, "BadRequestException")
       ELSE [c EXCEPT !.pc = "c_findPort"]]
  /\ UNCHANGED <<db, nextId, containers, nextCid, madeFor, started>>

\* findUnique({ where: { port } }) and the BadRequestException after it.
CreateFindPort(p) ==
  LET c == calls[p] IN
  /\ c.pc = "c_findPort"
  /\ calls' = [Delivered EXCEPT ![p] =
       IF PortTaken(c.port)
       THEN Throw(c, "BadRequestException")
       ELSE [c EXCEPT !.pc = "c_insert"]]
  /\ UNCHANGED <<db, nextId, containers, nextCid, madeFor, started>>

\* The row prisma.foundryInstance.create writes.
NewRecord(n, po) == [name |-> n, port |-> po, status |-> "CREATING", cref |-> 0]

\* prisma.foundryInstance.create: refused by a unique index (P2002) or by
\* the database; otherwise the row is inserted under a fresh id and the
\* handler goes on into startFoundry(newInstance.id).
CreateInsert(p) ==
  LET c == calls[p] IN
  /\ c.pc = "c_insert"
  /\ \E o \in DbOutcomes :
       IF o = "fault" THEN
         /\ calls' = [Delivered EXCEPT ![p] = Throw(Faulted(c, "db"), "PrismaError")]
         /\ UNCHANGED <<db, nextId>>
       ELSE IF UniqueViolation(c.name, c.port) THEN
         /\ calls' = [Delivered EXCEPT ![p] = Throw(c, "PrismaError")]
         /\ UNCHANGED <<db, nextId>>
       ELSE
         /\ db' = [db EXCEPT ![nextId] = NewRecord(c.name, c.port)]
         /\ nextId' = nextId + 1
         /\ calls' = [Delivered EXCEPT ![p] =
              [Wrote(c, "insert") EXCEPT !.id = nextId, !.pc = "s_find"]]
  /\ UNCHANGED <<containers, nextCid, madeFor, started>>

\* The catch around startFoundry: delete the row just inserted, then
\* re-throw the error of startFoundry.  A delete that fails (row gone,
\* P2025, or the database) replaces that error.
CreateRollback(p) ==
  LET c == calls[p] IN
  /\ c.pc = "c_rollback"
  /\ \E o \in DbOutcomes :
       IF o = "fault" THEN
         /\ calls' = [Delivered EXCEPT ![p] = Throw(Faulted(c, "db"), "PrismaError")]
         /\ UNCHANGED db
       ELSE IF ~Exists(c.id) THEN
         /\ calls' = [Delivered EXCEPT ![p] = Throw(c, "PrismaError")]
         /\ UNCHANGED db
       ELSE
         /\ db' = [db EXCEPT ![c.id] = NoRec]
         /\ calls' = [Delivered EXCEPT ![p] = Throw(Wrote(c, "delete"), c.err)]
  /\ UNCHANGED <<nextId, containers, nextCid, madeFor, started>>

\* --------------------------------------------------- checkInstanceHealth

\* What the HTTP request to the instance's port can come back with.
ProbeReplies ==
  { [kind |-> "response", status |-> 200],
    [kind |-> "response", status |-> 404],
    [kind |-> "response", status |-> 500],
    [kind |-> "refused", status |-> 0],
    [kind |-> "timeout", status |-> 0] }

\* Variant: only a success status counts as an answer.
ProbeResolvesOnlySuccess(reply) == reply.kind = "response" /\ reply.status < 300

\* axios.get with validateStatus(status < 500): a response below 500
\* resolves, everything else rejects into the catch.
ProbeResolves(reply) == reply.kind = "response" /\ reply.status < 500

\* Variant: every instance is probed, whatever its status.
ProbeNeedsNetworkAlways(rec) == TRUE

\* checkInstanceHealth needs the network only for a RUNNING instance.
ProbeNeedsNetwork(rec) == rec.status = "RUNNING"

\* checkInstanceHealth(instance) given the reply the network would give.
CheckInstanceHealth(rec, reply) ==
  IF ~ProbeNeedsNetwork(rec) THEN "unknown"
  ELSE IF ProbeResolves(reply) THEN "healthy"
  ELSE "unhealthy"

\* The request of probe k of a call went out and came back with reply.
Probed(c, k, reply) == [c EXCEPT !.probes = Append(@, [k |-> k, reply |-> reply])]

\* ----------------------------------------------------------- startFoundry

\* Variant: the already-running guard is missing.
StartRejectsNever(status) == FALSE

\* Variant: the guard of the earlier version of startFoundry, which the
\* doc comment still describes.
StartRejectsCreatingToo(status) == status \in {"RUNNING", "CREATING"}

\* The guard after findUnique: only a RUNNING instance is refused.
StartRejects(status) == status = "RUNNING"

\* Variant: the update marks the row RUNNING and clears the container id.
StartedRecordDropsRef(rec, cid) == [rec EXCEPT !.cref = 0, !.status = "RUNNING"]

\* Variant: the update forgets the container id.
StartedRecordNoRef(rec, cid) == [rec EXCEPT !.status = "RUNNING"]

\* The data of the update that ends a start.
StartedRecord(rec, cid) == [rec EXCEPT !.cref = cid, !.status = "RUNNING"]

\* Variant: every start creates a new container.
StartReusesContainerNever(rec) == FALSE

\* if (instance.dockerContainerId): the existing container is started,
\* otherwise a new one is created.
StartReusesContainer(rec) == rec.cref # 0

\* findUnique by id, NotFoundException, the already-running guard, and the
\* choice between the existing container and a new one.
StartFind(p) ==
  LET c == calls[p]
      rec == db[c.id]
  IN
  /\ c.pc = "s_find"
  /\ calls' = [Delivered EXCEPT ![p] =
       IF rec = NoRec THEN StartThrow(c, "NotFoundException")
       ELSE IF StartRejects(rec.status)
         THEN StartThrow([c EXCEPT !.inst = rec], "BadRequestException")
       ELSE [c EXCEPT !.inst = rec, !.cid = rec.cref,
                      !.pc = IF StartReusesContainer(rec) THEN "s_dockerStart"
                             ELSE "s_mkdir"]]
  /\ UNCHANGED <<db, nextId, containers, nextCid, madeFor, started>>

\* docker start <dockerContainerId> on the existing container.
StartDockerStart(p) ==
  LET c == Issue(calls[p], "start", calls[p].cid) IN
  /\ calls[p].pc = "s_dockerStart"
  /\ \E r \in DockerStartResults(c.cid) :
       /\ containers' = IF r.effect THEN [containers EXCEPT ![c.cid] = "running"]
                        ELSE containers
       /\ calls' = [Delivered EXCEPT ![p] =
            LET e == Executed(c, r, c.cid) IN
            IF ExecuteCommandThrows(r)
            THEN StartThrow(Faulted(e, "exec"), "InternalServerErrorException")
            ELSE [e EXCEPT !.pc = "s_update"]]
  /\ UNCHANGED <<db, nextId, nextCid, madeFor, started>>

\* fs.mkdir(dataPathToUse, { recursive: true }).
StartMkdir(p) ==
  LET c == Issue(calls[p], "mkdir", calls[p].id) IN
  /\ calls[p].pc = "s_mkdir"
  /\ \E ok \in BOOLEAN :
       calls' = [Delivered EXCEPT ![p] =
         IF ok THEN [c EXCEPT !.pc = "s_chown"]
         ELSE StartThrow(Faulted(c, "fs"), "FsError")]
  /\ UNCHANGED <<db, nextId, containers, nextCid, madeFor, started>>

\* chown -R 1000:1000 <dataPathToUse> through _executeCommand.
StartChown(p) ==
  LET c == Issue(calls[p], "chown", calls[p].id) IN
  /\ calls[p].pc = "s_chown"
  /\ \E r \in ProcResults :
       calls' = [Delivered EXCEPT ![p] =
            LET e == Executed(c, r, 0) IN
            IF ExecuteCommandThrows(r)
            THEN StartThrow(Faulted(e, "exec"), "InternalServerErrorException")
            ELSE [e EXCEPT !.pc = "s_dockerRun"]]
  /\ UNCHANGED <<db, nextId, containers, nextCid, madeFor, started>>

\* docker run -d --name foundry-<name> -p <port>:30000 ... : the engine
\* creates and starts a container and prints its id.
StartDockerRun(p) ==
  LET c == Issue(calls[p], "run", calls[p].id) IN
  /\ calls[p].pc = "s_dockerRun"
  /\ nextCid \in Cids
  /\ \E r \in ProcResults :
       /\ containers' = IF r.effect THEN [containers EXCEPT ![nextCid] = "running"]
                        ELSE containers
       /\ nextCid' = IF r.effect THEN nextCid + 1 ELSE nextCid
       /\ madeFor' = IF r.effect THEN [madeFor EXCEPT ![nextCid] = c.id] ELSE madeFor
       /\ calls' = [Delivered EXCEPT ![p] =
            LET e == Executed(c, r, nextCid) IN
            IF ExecuteCommandThrows(r)
            THEN StartThrow(Faulted(e, "exec"), "InternalServerErrorException")
            ELSE [e EXCEPT !.cid = e.execs[Len(e.execs)].value[1].text,
                           !.pc = "s_update"]]
  /\ UNCHANGED <<db, nextId, started>>

\* prisma.foundryInstance.update({ dockerContainerId, status: RUNNING }):
\* throws when the row is gone (P2025) or the database fails.
StartUpdate(p) ==
  LET c == calls[p] IN
  /\ c.pc = "s_update"
  /\ \E o \in DbOutcomes :
       IF o = "fault" THEN
         /\ calls' = [Delivered EXCEPT ![p] = StartThrow(Faulted(c, "db"), "PrismaError")]
         /\ UNCHANGED db
       ELSE IF ~Exists(c.id) THEN
         /\ calls' = [Delivered EXCEPT ![p] = StartThrow(c, "PrismaError")]
         /\ UNCHANGED db
       ELSE
         /\ db' = [db EXCEPT ![c.id] = StartedRecord(@, c.cid)]
         /\ calls' = [Delivered EXCEPT ![p] =
              [Wrote(c, "update") EXCEPT !.ret = StartedRecord(db[c.id], c.cid),
                                         !.pc = "s_health"]]
  /\ UNCHANGED <<nextId, containers, nextCid, madeFor, started>>

\* checkInstanceHealth(instance) on the updated row, then the return.
StartHealth(p) ==
  LET c == calls[p] IN
  /\ c.pc = "s_health"
  /\ \E reply \in ProbeReplies :
       calls' = [Delivered EXCEPT ![p] =
         Return(IF ProbeNeedsNetwork(c.ret)
                THEN Probed(Issue(c, "probe", c.ret.port), 1, reply) ELSE c,
                c.ret, CheckInstanceHealth(c.ret, reply))]
  /\ UNCHANGED <<db, nextId, containers, nextCid, madeFor, started>>

\* ------------------------------------------------------------ stopFoundry

\* Variant: only a STOPPED instance is refused.
StopRejectsOnlyStopped(status) == status = "STOPPED"

\* The guard after findUnique: anything but RUNNING is refused.
StopRejects(status) == status # "RUNNING"

\* Variant: stopping forgets the container.
StoppedRecordClearsRef(rec) == [rec EXCEPT !.status = "STOPPED", !.cref = 0]

\* Variant: the update of a stop also rewrites the name.
StoppedRecordRenames(rec) == [rec EXCEPT !.status = "STOPPED", !.name = "beta"]

\* The data of the update that ends a stop.
StoppedRecord(rec) == [rec EXCEPT !.status = "STOPPED"]

\* Variant: the missing container id is not noticed.
MissingContainerRefNever(rec) == FALSE

\* The guard !instance.dockerContainerId of stopFoundry.
MissingContainerRef(rec) == rec.cref = 0

\* findUnique, NotFoundException, the not-running guard and the
\* missing-container-id guard.
StopFind(p) ==
  LET c == calls[p]
      rec == db[c.id]
  IN
  /\ c.pc = "t_find"
  /\ calls' = [Delivered EXCEPT ![p] =
       IF rec = NoRec THEN Throw(c, "NotFoundException")
       ELSE IF StopRejects(rec.status)
         THEN Throw([c EXCEPT !.inst = rec], "BadRequestException")
       ELSE IF MissingContainerRef(rec)
         THEN Throw([c EXCEPT !.inst = rec], "InternalServerErrorException")
       ELSE [c EXCEPT !.inst = rec, !.pc = "t_dockerStop"]]
  /\ UNCHANGED <<db, nextId, containers, nextCid, madeFor, started>>

\* Variant: a failed docker stop is swallowed and the status is flipped.
AfterDockerStopSwallows(c, r) ==
  [(IF ExecuteCommandThrows(r) THEN Faulted(c, "exec") ELSE c) EXCEPT !.pc = "t_update"]

\* Where stopFoundry goes when docker stop has answered r: the catch logs
\* and re-throws.
AfterDockerStop(c, r) ==
  IF ExecuteCommandThrows(r)
  THEN Throw(Faulted(c, "exec"), "InternalServerErrorException")
  ELSE [c EXCEPT !.pc = "t_update"]

\* docker stop <dockerContainerId>.
StopDockerStop(p) ==
  LET c == Issue(calls[p], "stop", calls[p].inst.cref) IN
  /\ calls[p].pc = "t_dockerStop"
  /\ \E r \in EngineResults(c.inst.cref) :
       /\ containers' = IF r.effect THEN [containers EXCEPT ![c.inst.cref] = "exited"]
                        ELSE containers
       /\ calls' = [Delivered EXCEPT ![p] =
            AfterDockerStop(Executed(c, r, c.inst.cref), r)]
  /\ UNCHANGED <<db, nextId, nextCid, madeFor, started>>

\* prisma.foundryInstance.update({ status: STOPPED }) and the return with
\* healthStatus 'unknown'.
StopUpdate(p) ==
  LET c == calls[p] IN
  /\ c.pc = "t_update"
  /\ \E o \in DbOutcomes :
       IF o = "fault" THEN
         /\ calls' = [Delivered EXCEPT ![p] = Throw(Faulted(c, "db"), "PrismaError")]
         /\ UNCHANGED db
       ELSE IF ~Exists(c.id) THEN
         /\ calls' = [Delivered EXCEPT ![p] = Throw(c, "PrismaError")]
         /\ UNCHANGED db
       ELSE
         /\ db' = [db EXCEPT ![c.id] = StoppedRecord(@)]
         /\ calls' = [Delivered EXCEPT ![p] =
              Return(Wrote(c, "update"), StoppedRecord(db[c.id]), "unknown")]
  /\ UNCHANGED <<nextId, containers, nextCid, madeFor, started>>

\* ---------------------------------------------------------- deleteFoundry

\* Whether deleteFoundry has a container to remove first.
DeleteNeedsRemove(rec) == rec.cref # 0

\* findUnique, NotFoundException, and the choice whether a container has to
\* be removed before the row.
DeleteFind(p) ==
  LET c == calls[p]
      rec == db[c.id]
  IN
  /\ c.pc = "d_find"
  /\ calls' = [Delivered EXCEPT ![p] =
       IF rec = NoRec THEN Throw(c, "NotFoundException")
       ELSE [c EXCEPT !.inst = rec,
                      !.pc = IF DeleteNeedsRemove(rec) THEN "d_dockerRm" ELSE "d_delete"]]
  /\ UNCHANGED <<db, nextId, containers, nextCid, madeFor, started>>

\* Variant: the row is deleted whatever docker rm -f answered.
AfterDockerRmIgnores(c, r) ==
  [(IF ExecuteCommandThrows(r) THEN Faulted(c, "exec") ELSE c) EXCEPT !.pc = "d_delete"]

\* Where deleteFoundry goes when docker rm -f has answered r.
AfterDockerRm(c, r) ==
  IF ExecuteCommandThrows(r)
  THEN Throw(Faulted(c, "exec"), "InternalServerErrorException")
  ELSE [c EXCEPT !.pc = "d_delete"]

\* docker rm -f <dockerContainerId>.
DeleteDockerRm(p) ==
  LET c == Issue(calls[p], "rm", calls[p].inst.cref) IN
  /\ calls[p].pc = "d_dockerRm"
  /\ \E r \in EngineResults(c.inst.cref) :
       /\ containers' = IF r.effect THEN [containers EXCEPT ![c.inst.cref] = "removed"]
                        ELSE containers
       /\ calls' = [Delivered EXCEPT ![p] =
            AfterDockerRm(Executed(c, r, c.inst.cref), r)]
  /\ UNCHANGED <<db, nextId, nextCid, madeFor, started>>

\* prisma.foundryInstance.delete({ where: { id } }).
DeleteDelete(p) ==
  LET c == calls[p] IN
  /\ c.pc = "d_delete"
  /\ \E o \in DbOutcomes :
       IF o = "fault" THEN
         /\ calls' = [Delivered EXCEPT ![p] = Throw(Faulted(c, "db"), "PrismaError")]
         /\ UNCHANGED db
       ELSE IF ~Exists(c.id) THEN
         /\ calls' = [Delivered EXCEPT ![p] = Throw(c, "PrismaError")]
         /\ UNCHANGED db
       ELSE
         /\ db' = [db EXCEPT ![c.id] = NoRec]
         /\ calls' = [Delivered EXCEPT ![p] = Return(Wrote(c, "delete"), NoRec, "none")]
  /\ UNCHANGED <<nextId, containers, nextCid, madeFor, started>>

\* ------------------------------------------------------- getFoundryStatus

\* Variant: a state the switch does not name is taken for a stopped
\* container.
MapDockerStatusLenient(s) ==
  CASE s = "running" -> "RUNNING"
    [] OTHER -> "STOPPED"

\* The switch over dockerStatus.toLowerCase().
MapDockerStatus(s) ==
  CASE s = "running" -> "RUNNING"
    [] s = "exited" -> "STOPPED"
    [] OTHER -> "ERROR"

\* The status a reconcile call returns on success.
StatusAnswer(c, st) == Return(c, [c.inst EXCEPT !.status = st], "none")

\* findUnique, NotFoundException, and the branch for a row without a
\* container id: STOPPED is assumed, and written unless already stored.
StatusFind(p) ==
  LET c == calls[p]
      rec == db[c.id]
  IN
  /\ c.pc = "g_find"
  /\ calls' = [Delivered EXCEPT ![p] =
       IF rec = NoRec THEN Throw(c, "NotFoundException")
       ELSE IF rec.cref = 0 THEN
         IF rec.status # "STOPPED"
         THEN [c EXCEPT !.inst = rec, !.cur = "STOPPED", !.pc = "g_updateStopped"]
         ELSE StatusAnswer([c EXCEPT !.inst = rec], "STOPPED")
       ELSE [c EXCEPT !.inst = rec, !.pc = "g_inspect"]]
  /\ UNCHANGED <<db, nextId, containers, nextCid, madeFor, started>>

\* The update of the branch without a container id; it is outside the try,
\* so its failure leaves the handler as it is.
StatusUpdateStopped(p) ==
  LET c == calls[p] IN
  /\ c.pc = "g_updateStopped"
  /\ \E o \in DbOutcomes :
       IF o = "fault" THEN
         /\ calls' = [Delivered EXCEPT ![p] = Throw(Faulted(c, "db"), "PrismaError")]
         /\ UNCHANGED db
       ELSE IF ~Exists(c.id) THEN
         /\ calls' = [Delivered EXCEPT ![p] = Throw(c, "PrismaError")]
         /\ UNCHANGED db
       ELSE
         /\ db' = [db EXCEPT ![c.id].status = "STOPPED"]
         /\ calls' = [Delivered EXCEPT ![p] = StatusAnswer(Wrote(c, "update"), "STOPPED")]
  /\ UNCHANGED <<nextId, containers, nextCid, madeFor, started>>

\* Variant: the catch re-throws without marking the row.
StatusCatchRethrows(c, e) == Throw(c, e)

\* The catch of getFoundryStatus: ERROR is written unless the row read at
\* the start already said ERROR, and the error is re-thrown.
StatusCatch(c, e) ==
  IF c.inst.status # "ERROR" THEN [c EXCEPT !.err = e, !.pc = "g_updateError"]
  ELSE Throw(c, e)

\* docker inspect --format='{{.State.Status}}' <dockerContainerId> and the
\* switch over its answer.
StatusInspect(p) ==
  LET c == Issue(calls[p], "inspect", calls[p].inst.cref) IN
  /\ calls[p].pc = "g_inspect"
  /\ \E r \in EngineResults(c.inst.cref) :
       calls' = [Delivered EXCEPT ![p] =
         LET e == Executed(c, r, containers[c.inst.cref]) IN
         IF ExecuteCommandThrows(r)
         THEN StatusCatch(Faulted(e, "exec"), "InternalServerErrorException")
         ELSE LET st == MapDockerStatus(e.execs[Len(e.execs)].value[1].text) IN
              IF e.inst.status # st
              THEN [e EXCEPT !.cur = st, !.pc = "g_update"]
              ELSE StatusAnswer(e, st)]
  /\ UNCHANGED <<db, nextId, containers, nextCid, madeFor, started>>

\* The update of the mapped status; it is inside the try, so its failure
\* goes through the catch.
StatusUpdate(p) ==
  LET c == calls[p] IN
  /\ c.pc = "g_update"
  /\ \E o \in DbOutcomes :
       IF o = "fault" THEN
         /\ calls' = [Delivered EXCEPT ![p] = StatusCatch(Faulted(c, "db"), "PrismaError")]
         /\ UNCHANGED db
       ELSE IF ~Exists(c.id) THEN
         /\ calls' = [Delivered EXCEPT ![p] = StatusCatch(c, "PrismaError")]
         /\ UNCHANGED db
       ELSE
         /\ db' = [db EXCEPT ![c.id].status = c.cur]
         /\ calls' = [Delivered EXCEPT ![p] = StatusAnswer(Wrote(c, "update"), c.cur)]
  /\ UNCHANGED <<nextId, containers, nextCid, madeFor, started>>

\* The update to ERROR made by the catch, and the re-throw.
StatusUpdateError(p) ==
  LET c == calls[p] IN
  /\ c.pc = "g_updateError"
  /\ \E o \in DbOutcomes :
       IF o = "fault" THEN
         /\ calls' = [Delivered EXCEPT ![p] = Throw(Faulted(c, "db"), "PrismaError")]
         /\ UNCHANGED db
       ELSE IF ~Exists(c.id) THEN
         /\ calls' = [Delivered EXCEPT ![p] = Throw(c, "PrismaError")]
         /\ UNCHANGED db
       ELSE
         /\ db' = [db EXCEPT ![c.id].status = "ERROR"]
         /\ calls' = [Delivered EXCEPT ![p] = Throw(Wrote(c, "update"), c.err)]
  /\ UNCHANGED <<nextId, containers, nextCid, madeFor, started>>

\* --------------------------------------------------- listFoundryInstances

\* prisma.foundryInstance.findMany(): the rows, here in the order of their ids.
RECURSIVE RowsFrom(_)
RowsFrom(i) ==
  IF i \notin Ids THEN <<>>
  ELSE (IF Exists(i) THEN << db[i] >> ELSE <<>>) \o RowsFrom(i + 1)

FindMany == RowsFrom(1)

\* The requests that instances.map(...) sends before the first of them is
\* answered: one per instance that checkInstanceHealth probes, in array order.
ProbeCmds(rows) ==
  LET asked == SelectSeq(rows, ProbeNeedsNetwork) IN
  [k \in 1..Len(asked) |-> <<"probe", asked[k].port>>]

\* The positions of the Promise.all array that are not settled yet.
Pending(hl) == {k \in 1..Len(hl) : hl[k] = "pending"}

\* Variant: the results are collected in the order the probes complete.
PlaceResultByArrival(hl, k, h) ==
  LET first == CHOOSE j \in Pending(hl) : \A i \in Pending(hl) : j <= i IN
  [hl EXCEPT ![first] = h]

\* Promise.all keeps the position of each promise: the health computed by
\* the callback of instances[k] becomes element k of the result.
PlaceResult(hl, k, h) == [hl EXCEPT ![k] = h]

\* findMany, then instances.map(...): a callback whose instance is not
\* RUNNING settles with 'unknown' at once, the others wait for the network.
ListFind(p) ==
  LET c == calls[p] IN
  /\ c.pc = "l_find"
  /\ \E o \in DbOutcomes :
       IF o = "fault" THEN
         calls' = [Delivered EXCEPT ![p] = Throw(Faulted(c, "db"), "PrismaError")]
       ELSE
         LET rows == FindMany
             d == [c EXCEPT !.snap = rows,
                            !.hl = [k \in 1..Len(rows) |->
                                      IF ProbeNeedsNetwork(rows[k]) THEN "pending"
                                      ELSE "unknown"],
                            !.cmds = ProbeCmds(rows)]
         IN calls' = [Delivered EXCEPT ![p] =
              IF Pending(d.hl) = {} THEN Return(d, NoRec, "none")
              ELSE [d EXCEPT !.pc = "l_probe"]]
  /\ UNCHANGED <<db, nextId, containers, nextCid, madeFor, started>>

\* One of the requests in flight is answered (or times out); when it was
\* the last one, Promise.all resolves and the list is returned.
ListProbe(p) ==
  LET c == calls[p] IN
  /\ c.pc = "l_probe"
  /\ \E k \in Pending(c.hl), reply \in ProbeReplies :
       LET d == [Probed(c, k, reply) EXCEPT
                   !.hl = PlaceResult(c.hl, k, CheckInstanceHealth(c.snap[k], reply))]
       IN calls' = [Delivered EXCEPT ![p] =
            IF Pending(d.hl) = {} THEN Return(d, NoRec, "none") ELSE d]
  /\ UNCHANGED <<db, nextId, containers, nextCid, madeFor, started>>

\* ------------------------------------------------------ the specification

Step(p) ==
  \/ CallCreate(p) \/ CallStart(p) \/ CallStop(p) \/ CallDelete(p) \/ CallStatus(p)
  \/ CallList(p) \/ ListFind(p) \/ ListProbe(p)
  \/ CreateFindName(p) \/ CreateFindPort(p) \/ CreateInsert(p) \/ CreateRollback(p)
  \/ StartFind(p) \/ StartDockerStart(p) \/ StartMkdir(p) \/ StartChown(p)
  \/ StartDockerRun(p) \/ StartUpdate(p) \/ StartHealth(p)
  \/ StopFind(p) \/ StopDockerStop(p) \/ StopUpdate(p)
  \/ DeleteFind(p) \/ DeleteDockerRm(p) \/ DeleteDelete(p)
  \/ StatusFind(p) \/ StatusInspect(p) \/ StatusUpdateStopped(p)
  \/ StatusUpdate(p) \/ StatusUpdateError(p)

Next == \E p \in Procs : Step(p)

\* Concurrent callers: the awaits of the calls in flight interleave.
Spec == Init /\ [][Next]_vars

\* One caller at a time: a call is made only when no other is in flight.
SeqNext == \E p \in Procs : (\A q \in Procs \ {p} : ~InFlight(q)) /\ Step(p)

SeqSpec == Init /\ [][SeqNext]_vars

\* Concurrent callers on a table that may have been corrupted.
CorruptSpec == CorruptInit /\ [][Next]_vars

\* The awaits of _executeCommand: execAsync(command) is given no timeout
\* option, so the handler resumes only when the process exits.
ExecPcs ==
  {"s_dockerStart", "s_chown", "s_dockerRun", "t_dockerStop", "d_dockerRm", "g_inspect"}

\* The process that a handler waits for never exits: nothing resumes the
\* handler, which stays at its await.
ExecHangs(p) ==
  /\ calls[p].pc \in ExecPcs
  /\ calls' = [Delivered EXCEPT ![p] = [calls[p] EXCEPT !.pc = "hung"]]
  /\ UNCHANGED <<db, nextId, containers, nextCid, madeFor, started>>

HangNext == Next \/ \E p \in Procs : ExecHangs(p)

\* The event loop runs every continuation that is ready: a handler in
\* flight whose awaited promise can settle is eventually resumed.  (The
\* axios request always settles, by its 5000 ms timeout at the latest.)
FairSpec ==
  /\ Init
  /\ [][HangNext]_vars
  /\ \A p \in Procs : WF_vars(InFlight(p) /\ Step(p))

\* Start, stop and reconcile calls racing on instance 1, with an engine and
\* a repository that answer every request successfully.

\* No call in flight has met a failing command or a failing write.
NoFault == \A p \in Procs : calls[p].faults = {}

\* Every call that was made names instance 1.
OnInstanceOne == \A p \in Procs : calls[p].op # "none" => calls[p].id = 1

\* Instance 1 exists with its container, row and engine in agreement, and a
\* reconcile of it has just been received; the callers make MaxCalls more
\* calls while it is in flight or after it.
RaceInit ==
  /\ \E seed \in {"RUNNING", "STOPPED"} :
       /\ db = [i \in Ids |-> IF i = 1 THEN SeedRecord(seed) ELSE NoRec]
       /\ containers = [c \in Cids |-> IF c = 1 THEN SeedContainer(seed) ELSE "none"]
  /\ nextId = 2
  /\ nextCid = 2
  /\ madeFor = [c \in Cids |-> IF c = 1 THEN 1 ELSE 0]
  /\ calls = [p \in Procs |->
       IF p = 1 THEN [IdleCall EXCEPT !.op = "status", !.pc = "g_find", !.id = 1]
       ELSE IdleCall]
  /\ started = 0

\* The first free caller is the first one whose previous call has returned.
RaceStep(p) ==
  \/ CallStart(p) \/ CallStop(p) \/ CallStatus(p)
  \/ StartFind(p) \/ StartDockerStart(p) \/ StartUpdate(p) \/ StartHealth(p)
  \/ StopFind(p) \/ StopDockerStop(p) \/ StopUpdate(p)
  \/ StatusFind(p) \/ StatusInspect(p) \/ StatusUpdate(p)

RaceNext == \E p \in Procs : RaceStep(p) /\ NoFault' /\ OnInstanceOne'

RaceSpec == RaceInit /\ [][RaceNext]_vars

\* ------------------------------------------------------------ properties

Done(p, op) == calls[p].op = op /\ calls[p].pc = "done"

\* C1: concurrent createInstance calls never leave two rows with the same
\* name or the same port, and a call that loses to another one is answered
\* with a Conflict (client) error and has inserted nothing.
C1_UniqueAndConflict ==
  /\ \A i, j \in Live :
       i # j => db[i].name # db[j].name /\ db[i].port # db[j].port
  /\ \A p \in Procs :
       LET c == calls[p] IN
       (Done(p, "create") /\ c.res # "ok" /\ c.writes = <<>> /\ "db" \notin c.faults)
         => IsClientError(c.res)

\* C2: when a command of the Start step inside createInstance fails (and
\* the repository carries out the rollback), createInstance fails, the row
\* it inserted is gone and no row carries the attempted name.
C2_NoOrphanOnFailedCreate ==
  \A p \in Procs :
    LET c == calls[p] IN
    (Done(p, "create") /\ "exec" \in c.faults /\ "db" \notin c.faults)
      => /\ c.res = "InternalServerErrorException"
         /\ ~Exists(c.id)
         /\ ~NameTaken(c.name)

C2_Witness ==
  \E p \in Procs :
    /\ Done(p, "create")
    /\ "exec" \in calls[p].faults
    /\ calls[p].writes = <<"insert", "delete">>
    /\ <<"run", calls[p].id>> = calls[p].cmds[Len(calls[p].cmds)]

\* C3: with name and port free and nothing failing, createInstance returns
\* a RUNNING instance with a container id, and the table holds exactly one
\* row of that name, equal to the returned one; a call that did not meet a
\* failure ends otherwise only when the name or the port was taken, or the
\* port was not one the request body may carry.
C3_CreateReturnsRunning ==
  \A p \in Procs :
    LET c == calls[p] IN
    (Done(p, "create") /\ c.faults = {})
      => IF c.res = "ok"
         THEN /\ c.ret.status = "RUNNING"
              /\ c.ret.cref # 0
              /\ c.ret.name = c.name /\ c.ret.port = c.port
              /\ {i \in Live : db[i].name = c.name} = {c.id}
              /\ db[c.id] = c.ret
              /\ containers[c.ret.cref] = "running"
         ELSE /\ c.res = "BadRequestException"
              /\ NameTaken(c.name) \/ PortTaken(c.port) \/ ~PortAllowed(c.port)

C3_Witness ==
  \E p \in Procs :
    /\ Done(p, "create")
    /\ calls[p].res = "ok"
    /\ calls[p].faults = {}
    /\ db[calls[p].id].status = "RUNNING"

\* C4: a createInstance whose name or port is held by an existing row ends
\* with the Conflict error and has done nothing: no insert, no directory,
\* no command, the table and the engine as before, and one row of a taken
\* name.
C4_DuplicateRejectedFirst ==
  [][\A p \in Procs :
       LET c == calls[p]
           d == calls'[p]
       IN
       (/\ c.op = "create" /\ InFlight(p) /\ d.pc = "done"
        /\ \E i \in Live : i # c.id /\ (db[i].name = c.name \/ db[i].port = c.port))
       => /\ d.res = "BadRequestException"
          /\ IsClientError(d.res)
          /\ d.writes = <<>>
          /\ d.cmds = <<>>
          /\ db' = db
          /\ containers' = containers
          /\ NameTaken(c.name) =>
               Cardinality({i \in Ids : db'[i] # NoRec /\ db'[i].name = c.name}) = 1
    ]_vars

C4_Witness ==
  \E p \in Procs :
    /\ Done(p, "create")
    /\ calls[p].res = "BadRequestException"
    /\ ~NameTaken(calls[p].name)
    /\ PortTaken(calls[p].port)

\* C5: startInstance on a row whose status is RUNNING ends at once with
\* the already-running client error; no command is issued and the row, the
\* table and the engine stay as they are.
C5_StartOnRunningRejected ==
  [][\A p \in Procs :
       LET c == calls[p]
           d == calls'[p]
       IN
       (c.op = "start" /\ c.pc = "s_find" /\ d # c /\ db[c.id].status = "RUNNING")
       => /\ d.pc = "done"
          /\ d.res = "BadRequestException"
          /\ IsClientError(d.res)
          /\ d.cmds = <<>>
          /\ d.writes = <<>>
          /\ db' = db
          /\ containers' = containers
    ]_vars

C5_Witness ==
  \E p \in Procs :
    /\ Done(p, "start")
    /\ calls[p].inst.status = "RUNNING"
    /\ calls[p].res = "BadRequestException"
    /\ db[calls[p].id] = calls[p].inst

\* C6: when a command of a standalone startInstance fails, the failure is
\* what the call ends with and the row is as it was read: same status, same
\* container id, not deleted.
C6_FailedStartLeavesRecord ==
  \A p \in Procs :
    LET c == calls[p] IN
    (Done(p, "start") /\ "exec" \in c.faults)
      => /\ c.res = "InternalServerErrorException"
         /\ c.inst # NoRec
         /\ db[c.id] = c.inst
         /\ c.writes = <<>>

C6_Witness ==
  \E p \in Procs :
    /\ Done(p, "start")
    /\ "exec" \in calls[p].faults
    /\ calls[p].inst.status = "STOPPED"
    /\ calls[p].cmds = << <<"start", calls[p].inst.cref>> >>
    /\ db[calls[p].id] = calls[p].inst

\* C7: the update that ends a stop sets STOPPED and keeps the container id,
\* which is not null; a stop whose docker stop succeeded ends that way
\* unless the row is gone or the database fails; and no step of any call
\* takes a container id away from a row that stays in the table.
C7_StopKeepsContainerRef ==
  [][/\ \A i \in Ids :
          (db[i].cref # 0 /\ db'[i] # NoRec) => db'[i].cref # 0
     /\ \A p \in Procs :
          LET c == calls[p]
              d == calls'[p]
          IN
          (c.op = "stop" /\ c.pc = "t_update" /\ d # c)
          => /\ d.pc = "done"
             /\ (Exists(c.id) /\ "db" \notin d.faults) => d.res = "ok"
             /\ d.res = "ok" =>
                  /\ c.inst.status = "RUNNING"
                  /\ db'[c.id].status = "STOPPED"
                  /\ db'[c.id].cref = db[c.id].cref
                  /\ db'[c.id].cref # 0
                  /\ d.ret = db'[c.id]
    ]_vars

C7_Witness ==
  \E p \in Procs :
    /\ Done(p, "stop")
    /\ calls[p].res = "ok"
    /\ db[calls[p].id].status = "STOPPED"
    /\ db[calls[p].id].cref = calls[p].inst.cref
    /\ containers[calls[p].inst.cref] = "exited"

\* C8: stopInstance on a row whose status is not RUNNING ends at once with
\* the not-running client error; no command is issued and the row, the
\* table and the engine stay as they are.
C8_StopOnNotRunningRejected ==
  [][\A p \in Procs :
       LET c == calls[p]
           d == calls'[p]
       IN
       (c.op = "stop" /\ c.pc = "t_find" /\ d # c
          /\ db[c.id].status \in Statuses \ {"RUNNING"})
       => /\ d.pc = "done"
          /\ d.res = "BadRequestException"
          /\ IsClientError(d.res)
          /\ d.cmds = <<>>
          /\ d.writes = <<>>
          /\ db' = db
          /\ containers' = containers
    ]_vars

C8_Witness ==
  \E p \in Procs :
    /\ Done(p, "stop")
    /\ calls[p].inst.status = "ERROR"
    /\ calls[p].inst.cref # 0
    /\ calls[p].res = "BadRequestException"

\* C9: when stopInstance fails at its docker stop, the status in the table
\* after the call is the one read before it, RUNNING, and the row is
\* untouched.
C9_FailedStopKeepsStatus ==
  \A p \in Procs :
    LET c == calls[p] IN
    (Done(p, "stop") /\ "exec" \in c.faults)
      => /\ c.res = "InternalServerErrorException"
         /\ c.inst.status = "RUNNING"
         /\ db[c.id].status = c.inst.status
         /\ db[c.id] = c.inst

C9_Witness ==
  \E p \in Procs :
    /\ Done(p, "stop")
    /\ "exec" \in calls[p].faults
    /\ calls[p].cmds = << <<"stop", calls[p].inst.cref>> >>
    /\ db[calls[p].id].status = "RUNNING"

\* C10: deleteInstance removes the row only after docker rm -f on its
\* container id has succeeded: until then the row is as it was read; a
\* failed removal is what the call ends with, the row still there and
\* unchanged; a row without a container id is removed with no command.
C10_DeleteAfterForcedRemove ==
  \A p \in Procs :
    LET c == calls[p]
        rm == << <<"rm", c.inst.cref>> >>
    IN
    /\ (c.op = "delete" /\ c.pc = "d_dockerRm") => (db[c.id] = c.inst /\ c.cmds = <<>>)
    /\ (c.op = "delete" /\ c.pc = "d_delete") =>
         /\ db[c.id] = c.inst
         /\ c.inst.cref # 0 => (c.cmds = rm /\ containers[c.inst.cref] = "removed")
    /\ (Done(p, "delete") /\ c.inst # NoRec) =>
         /\ c.cmds = IF c.inst.cref # 0 THEN rm ELSE <<>>
         /\ IF c.res = "ok"
            THEN /\ ~Exists(c.id)
                 /\ c.inst.cref # 0 => containers[c.inst.cref] = "removed"
            ELSE db[c.id] = c.inst
         /\ "exec" \in c.faults => c.res = "InternalServerErrorException"
         /\ c.faults = {} => c.res = "ok"

C10_Witness ==
  \E p \in Procs :
    /\ Done(p, "delete")
    /\ calls[p].res = "ok"
    /\ calls[p].inst.status = "RUNNING"
    /\ calls[p].cmds = << <<"rm", calls[p].inst.cref>> >>
    /\ ~Exists(calls[p].id)

\* A row without a container id is deleted without any command.
C10_WitnessNoContainer ==
  \E p \in Procs :
    /\ Done(p, "delete")
    /\ calls[p].res = "ok"
    /\ calls[p].inst.cref = 0
    /\ calls[p].inst # NoRec

\* C11: when deleteInstance runs docker rm -f for a container id that the
\* engine no longer has, the "already gone" answer counts as success: the
\* call goes on to delete the row instead of ending with an error.
C11_GoneContainerIsSuccess ==
  [][\A p \in Procs :
       LET c == calls[p]
           d == calls'[p]
       IN
       (/\ c.op = "delete" /\ c.pc = "d_dockerRm" /\ d # c
        /\ containers[c.inst.cref] \in {"none", "removed"})
       => (d.pc = "d_delete" /\ d.res = "none" /\ d.faults = {})
    ]_vars

\* C12: from the moment deleteInstance has passed its existence check until
\* the row is removed, the persisted status of the instance is DELETING.
C12_DeletingWhileDeleting ==
  \A p \in Procs :
    LET c == calls[p] IN
    (c.op = "delete" /\ c.pc \in {"d_dockerRm", "d_delete"} /\ Exists(c.id))
    => db[c.id].status = "DELETING"

\* C13: a successful getStatus returns and stores the best-fit status:
\* STOPPED for a row without container id; with a container id RUNNING for
\* the engine state running, STOPPED for exited, ERROR for any other state;
\* the row is written only when this differs from the stored status, and
\* afterwards the stored status is the returned one.
C13_ReconcileMapsAndPersists ==
  \A p \in Procs :
    LET c == calls[p]
        state == containers[c.inst.cref]
        best == IF c.inst.cref = 0 THEN "STOPPED"
                ELSE IF state = "running" THEN "RUNNING"
                ELSE IF state = "exited" THEN "STOPPED"
                ELSE "ERROR"
    IN
    (Done(p, "status") /\ c.res = "ok") =>
      /\ c.ret = [c.inst EXCEPT !.status = best]
      /\ db[c.id] = c.ret
      /\ c.writes = IF c.inst.status # best THEN << "update" >> ELSE <<>>
      /\ c.cmds = IF c.inst.cref = 0 THEN <<>> ELSE << <<"inspect", c.inst.cref>> >>

\* A RUNNING row whose container the engine reports as paused is answered
\* ERROR, and ERROR is stored.
C13_Witness ==
  \E p \in Procs :
    /\ Done(p, "status")
    /\ calls[p].res = "ok"
    /\ calls[p].inst.status = "RUNNING"
    /\ containers[calls[p].inst.cref] = "paused"
    /\ calls[p].ret.status = "ERROR"
    /\ db[calls[p].id].status = "ERROR"
    /\ calls[p].writes = << "update" >>

\* C14: when the docker inspect made by getStatus fails, the stored status
\* of the instance is ERROR after the call, whatever it was before (given
\* that the database takes the write), and the call ends with the failure.
C14_InspectFailureMarksError ==
  \A p \in Procs :
    LET c == calls[p] IN
    (Done(p, "status") /\ "exec" \in c.faults /\ "db" \notin c.faults) =>
      /\ db[c.id].status = "ERROR"
      /\ db[c.id] = [c.inst EXCEPT !.status = "ERROR"]
      /\ c.res = "InternalServerErrorException"
      /\ c.writes = IF c.inst.status # "ERROR" THEN << "update" >> ELSE <<>>

\* The inspect of a RUNNING row fails and the row ends up ERROR.
C14_Witness ==
  \E p \in Procs :
    /\ Done(p, "status")
    /\ "exec" \in calls[p].faults
    /\ calls[p].inst.status = "RUNNING"
    /\ calls[p].cmds = << <<"inspect", calls[p].inst.cref>> >>
    /\ db[calls[p].id].status = "ERROR"

HealthValues == {"healthy", "unhealthy", "unknown"}

\* C15: for an instance whose status is not RUNNING the health is 'unknown'
\* and no request is sent: in a returned list every such instance carries
\* 'unknown', and the requests sent are exactly those for the RUNNING
\* instances; stopInstance answers 'unknown'; no health value returned is
\* 'checking' (a stored row has no health at all).
C15_NoProbeUnlessRunning ==
  \A p \in Procs :
    LET c == calls[p] IN
    /\ c.health \in HealthValues \cup {"none"}
    /\ \A k \in DOMAIN c.hl : c.hl[k] \in HealthValues \cup {"pending"}
    /\ (Done(p, "stop") /\ c.res = "ok") =>
         (c.ret.status = "STOPPED" /\ c.health = "unknown" /\ c.probes = <<>>)
    /\ (c.op \in {"start", "create"} /\ c.probes # <<>>) => c.ret.status = "RUNNING"
    /\ (c.op = "list" /\ (c.pc = "l_probe" \/ (c.pc = "done" /\ c.res = "ok"))) =>
         /\ Len(c.hl) = Len(c.snap)
         /\ \A k \in DOMAIN c.snap :
              c.snap[k].status # "RUNNING" => c.hl[k] = "unknown"
         /\ \A i \in DOMAIN c.probes : c.snap[c.probes[i].k].status = "RUNNING"
         /\ c.cmds = ProbeCmds(SelectSeq(c.snap, LAMBDA r : r.status = "RUNNING"))

\* A list that holds a STOPPED instance returns it with 'unknown' and has
\* sent no request.
C15_Witness ==
  \E p \in Procs :
    /\ Done(p, "list")
    /\ calls[p].res = "ok"
    /\ \E k \in DOMAIN calls[p].snap :
         calls[p].snap[k].status = "STOPPED" /\ calls[p].hl[k] = "unknown"
    /\ calls[p].cmds = <<>>
    /\ calls[p].probes = <<>>

\* The health the claim assigns to an answered probe of a RUNNING instance.
HealthOfReply(reply) ==
  IF reply.kind = "response" /\ reply.status < 500 THEN "healthy" ELSE "unhealthy"

\* C16: a probe of a RUNNING instance never throws: a response below 500
\* gives 'healthy'; a timeout, a refused connection or a response of 500 or
\* more gives 'unhealthy'; a start or a list that has probed never fails
\* because of the probe.
C16_ProbeNeverThrows ==
  \A p \in Procs :
    LET c == calls[p] IN
    /\ (c.op \in {"start", "create"} /\ c.probes # <<>>) =>
         /\ c.pc = "done" /\ c.res = "ok"
         /\ Len(c.probes) = 1
         /\ c.health = HealthOfReply(c.probes[1].reply)
    /\ (c.op = "list" /\ c.probes # <<>>) =>
         /\ c.pc \in {"l_probe", "done"}
         /\ c.pc = "done" => c.res = "ok"
         /\ \A i \in DOMAIN c.probes :
              c.hl[c.probes[i].k] = HealthOfReply(c.probes[i].reply)

\* A start whose probe got a 404 is healthy.
C16_Witness ==
  \E p \in Procs :
    /\ Done(p, "start")
    /\ calls[p].res = "ok"
    /\ calls[p].probes = << [k |-> 1, reply |-> [kind |-> "response", status |-> 404]] >>
    /\ calls[p].health = "healthy"

\* A list whose probe timed out returns, with 'unhealthy' for that instance.
C16_WitnessList ==
  \E p \in Procs :
    /\ Done(p, "list")
    /\ calls[p].res = "ok"
    /\ \E i \in DOMAIN calls[p].probes :
         /\ calls[p].probes[i].reply.kind = "timeout"
         /\ calls[p].hl[calls[p].probes[i].k] = "unhealthy"

\* C17: listWithHealth returns one (instance, health) pair for each row of
\* the findMany snapshot, in the snapshot's order, and the health of pair k
\* is what the probe made for instance k gave, in whatever order the probes
\* came back.
C17_ListPairsHealthWithInstance ==
  \A p \in Procs :
    LET c == calls[p]
        running == {k \in DOMAIN c.snap : c.snap[k].status = "RUNNING"}
    IN
    (Done(p, "list") /\ c.res = "ok") =>
      /\ c.snap = FindMany
      /\ DOMAIN c.hl = DOMAIN c.snap
      /\ \A k \in DOMAIN c.hl : c.hl[k] \in HealthValues
      /\ {c.probes[i].k : i \in DOMAIN c.probes} = running
      /\ Len(c.probes) = Cardinality(running)
      /\ \A i \in DOMAIN c.probes :
           LET k == c.probes[i].k IN
           c.hl[k] = CheckInstanceHealth(c.snap[k], c.probes[i].reply)

\* Two RUNNING instances; the probe of the second came back first, and
\* the two got different healths.
C17_Witness ==
  \E p \in Procs :
    /\ Done(p, "list")
    /\ calls[p].res = "ok"
    /\ Len(calls[p].snap) = 2
    /\ Len(calls[p].probes) = 2
    /\ calls[p].probes[1].k = 2
    /\ calls[p].probes[2].k = 1
    /\ calls[p].hl = << "healthy", "unhealthy" >>

\* C18: every invocation that is in flight eventually returns, with a
\* result or a failure, even when an engine process never exits or a probed
\* port never answers.
C18_EveryCallReturns == \A p \in Procs : InFlight(p) ~> ~InFlight(p)

\* C19: createInstance with a port below 1024 or above 65535 is answered
\* with a client error before the service runs: the call has issued no
\* command and made no write, and no stored row has such a port.
C19_PortOutOfRangeRejected ==
  /\ \A p \in Procs :
       LET c == calls[p] IN
       (c.op = "create" /\ (c.port < 1024 \/ c.port > 65535)) =>
         /\ c.pc = "done"
         /\ c.res = "BadRequestException" /\ IsClientError(c.res)
         /\ c.cmds = <<>> /\ c.writes = <<>>
         /\ c.id = 0 /\ c.inst = NoRec
  /\ \A i \in Live : db[i].port >= 1024 /\ db[i].port <= 65535

\* A create with port 65536 has been refused.
C19_Witness ==
  \E p \in Procs :
    /\ Done(p, "create")
    /\ calls[p].port = 65536
    /\ calls[p].res = "BadRequestException"
    /\ calls[p].writes = <<>>

C21_StopWithoutContainerRefFails ==
  [][\A p \in Procs :
       LET c == calls[p]
           d == calls'[p]
       IN
       (/\ c.op = "stop" /\ c.pc = "t_find" /\ d # c
        /\ db[c.id].status = "RUNNING" /\ db[c.id].cref = 0)
       => /\ d.pc = "done"
          /\ d.res = "InternalServerErrorException"
          /\ HttpStatusOf(d.res) = 500
          /\ d.cmds = <<>> /\ d.writes = <<>>
          /\ db' = db /\ containers' = containers
    ]_vars

\* A stop has just been refused for the missing container id.
C21_Witness ==
  \E p \in Procs :
    /\ Done(p, "stop")
    /\ calls[p].inst.status = "RUNNING"
    /\ calls[p].inst.cref = 0
    /\ calls[p].res = "InternalServerErrorException"
    /\ db[calls[p].id] = calls[p].inst

\* C22: one _executeCommand call runs one process, once: when the process
\* exits with code 0 and an empty error stream the caller gets the trimmed
\* standard output and no failure; when the exit code is not 0 or the error
\* stream is not empty the caller gets the failure and no output.
C22_ExecuteCommandContract ==
  [][\A p \in Procs :
       LET c == calls[p]
           d == calls'[p]
           e == d.execs[Len(d.execs)]
       IN
       (c.pc \in ExecPcs /\ d # c) =>
         /\ Len(d.cmds) = Len(c.cmds) + 1
         /\ Len(d.execs) = Len(c.execs) + 1
         /\ IF e.r.exit = 0 /\ ~e.r.stderr
            THEN /\ e.value = << [lead |-> 0, text |-> e.stdout.text, trail |-> 0] >>
                 /\ d.faults = {} /\ d.err = "none"
                 /\ d.res \in {"none", "ok"}
            ELSE /\ e.value = <<>>
                 /\ "exec" \in d.faults
                 /\ \/ d.pc = "done" /\ d.res = "InternalServerErrorException"
                    \/ d.pc \in {"c_rollback", "g_updateError"}
                         /\ d.err = "InternalServerErrorException"
    ]_vars

\* A docker stop that exited with 0 but wrote to the error stream has
\* failed the call.
C22_Witness ==
  \E p \in Procs :
    /\ Done(p, "stop")
    /\ Len(calls[p].execs) = 1
    /\ calls[p].execs[1].r = [exit |-> 0, stderr |-> TRUE, effect |-> TRUE]
    /\ calls[p].execs[1].value = <<>>
    /\ calls[p].res = "InternalServerErrorException"

\* A docker run has returned the id it printed, without the newline.
C22_WitnessOutput ==
  \E p \in Procs :
    /\ calls[p].pc = "s_update"
    /\ Len(calls[p].execs) = 2
    /\ calls[p].execs[2].stdout.trail = 1
    /\ calls[p].execs[2].value = << [lead |-> 0, text |-> calls[p].cid, trail |-> 0] >>

\* C23: in every state reached by any interleaving of create, start, stop,
\* delete and reconcile calls, a row whose status is RUNNING has a container
\* id, so that no stop call ever ends at the missing-container-id guard.
C23_RunningHasContainerRef ==
  /\ \A i \in Live : db[i].status = "RUNNING" => db[i].cref # 0
  /\ \A p \in Procs :
       (calls[p].op = "stop" /\ calls[p].inst.status = "RUNNING") =>
         (calls[p].inst.cref # 0 /\ ~MissingContainerRef(calls[p].inst))

\* A row inserted by createFoundryInstance has become RUNNING, with the id
\* of the container made for it, and a stop of it has passed the guards.
C23_Witness ==
  \E p \in Procs :
    /\ calls[p].op = "stop"
    /\ calls[p].pc = "t_dockerStop"
    /\ calls[p].id > 1
    /\ db[calls[p].id].status = "RUNNING"
    /\ db[calls[p].id].cref # 0

\* An operation is in flight on instance i.
Busy(i) == \E p \in Procs : InFlight(p) /\ calls[p].id = i

\* C24: for every existing row with no operation in flight on it, the
\* container id is set if and only if the engine has created a container
\* for that instance at least once.
C24_ContainerRefIffCreated ==
  \A i \in Live :
    ~Busy(i) => (db[i].cref # 0 <=> \E k \in Cids : madeFor[k] = i)

\* The containers the engine has created for instance i.
ContainersOf(i) == {k \in Cids : madeFor[k] = i}

\* C25: a successful start of a row without container id has created the
\* data directory, then set its ownership, then run a new container, in
\* that order, and has stored the id the engine returned, with RUNNING; a
\* start of a row with a container id issues a plain docker start on that
\* id and nothing else, creates no container at any step and keeps the id,
\* so the instance keeps the container it had.
C25_StartSideEffectsByContainerRef ==
  [][\A p \in Procs :
       LET c == calls[p]
           d == calls'[p]
           probe == << <<"probe", d.inst.port>> >>
       IN
       /\ (c.op = "start" /\ d # c /\ c.inst.cref # 0) =>
            /\ madeFor' = madeFor /\ nextCid' = nextCid
            /\ \A k \in Cids \ {c.inst.cref} : containers'[k] = containers[k]
       /\ (d.op \in {"start", "create"} /\ d # c /\ d.pc = "done" /\ d.res = "ok") =>
            /\ d.ret = [d.inst EXCEPT !.status = "RUNNING", !.cref = d.ret.cref]
            /\ db'[d.id] = d.ret
            /\ containers'[d.ret.cref] = "running"
            /\ IF d.inst.cref = 0
               THEN /\ d.cmds = << <<"mkdir", d.id>>, <<"chown", d.id>>,
                                  <<"run", d.id>> >> \o probe
                    /\ d.execs[2].value = << Trim(Stdout(d.ret.cref)) >>
                    /\ d.ret.cref # 0
                    /\ madeFor'[d.ret.cref] = d.id
               ELSE /\ d.cmds = << <<"start", d.inst.cref>> >> \o probe
                    /\ d.ret.cref = d.inst.cref
    ]_vars

\* The second call of a run is a start of a STOPPED row that kept its
\* container: docker start only, and the same single container.
C25_Witness ==
  \E p \in Procs :
    /\ Done(p, "start")
    /\ calls[p].res = "ok"
    /\ started = 2
    /\ calls[p].inst.status = "STOPPED"
    /\ calls[p].cmds[1] = <<"start", 1>>
    /\ db[calls[p].id].cref = 1
    /\ ContainersOf(calls[p].id) = {1}

\* A row without container id got its directory, its ownership and a new
\* container, in that order.
C25_WitnessFresh ==
  \E p \in Procs :
    /\ Done(p, "create")
    /\ calls[p].res = "ok"
    /\ calls[p].inst.cref = 0
    /\ Len(calls[p].cmds) = 4
    /\ calls[p].cmds[3] = <<"run", calls[p].id>>
    /\ db[calls[p].id].cref # 0

\* C26: whenever a row changes, the step is one of a call on that very id:
\* an operation on one instance never modifies or removes the row of
\* another, in any interleaving; a row appears only by the insert of a
\* create, disappears only by a delete (or the rollback of the create that
\* inserted it), and otherwise keeps its id, name and port: only status
\* and container id are written.
C26_OnlyOwnRowOnlyStatusAndRef ==
  [][\A i \in Ids :
       db'[i] # db[i] =>
         \E p \in Procs :
           /\ InFlight(p) /\ calls'[p] # calls[p]
           /\ \A q \in Procs \ {p} : InFlight(q) => calls'[q] = calls[q]
           /\ \A j \in Ids \ {i} : db'[j] = db[j]
           /\ IF db[i] = NoRec
              THEN calls[p].pc = "c_insert" /\ calls'[p].id = i
              ELSE /\ calls[p].id = i
                   /\ IF db'[i] = NoRec
                      THEN calls[p].pc \in {"d_delete", "c_rollback"}
                      ELSE /\ calls[p].op \in {"start", "create", "stop", "status"}
                           /\ db'[i].name = db[i].name
                           /\ db'[i].port = db[i].port
    ]_vars

\* A stop of one instance has returned while another instance exists,
\* and that other row is RUNNING as its create left it.
C26_Witness ==
  \E p \in Procs :
    /\ Done(p, "stop")
    /\ calls[p].res = "ok"
    /\ calls[p].id = 1
    /\ db[1].status = "STOPPED"
    /\ Exists(2) /\ db[2].status = "RUNNING" /\ db[2].name = "beta"

\* C27: a partially deleted instance does not look startable: when
\* deleteInstance has removed the container and then ends without having
\* removed the row, the row that remains does not keep CREATING, STOPPED or
\* RUNNING together with the id of the removed container.
C27_PartialDeleteNotStartable ==
  \A p \in Procs :
    LET c == calls[p] IN
    (/\ Done(p, "delete") /\ c.res # "ok"
     /\ c.inst.cref # 0 /\ containers[c.inst.cref] = "removed"
     /\ "db" \in c.faults /\ Exists(c.id))
    => ~(/\ db[c.id].status \in {"CREATING", "STOPPED", "RUNNING"}
         /\ db[c.id].cref = c.inst.cref)

\* No call is in flight.
Quiescent == \A p \in Procs : ~InFlight(p)

\* C28: whenever no operation is in flight, every container the service
\* has created and the engine still has is the container id of an existing
\* row: no container is left untracked.
C28_NoUntrackedContainer ==
  Quiescent =>
    \A k \in Cids :
      (madeFor[k] # 0 /\ containers[k] \notin {"none", "removed"})
      => \E i \in Live : db[i].cref = k

\* C29: the rollback of createInstance never deletes a started instance:
\* the row removed by the rollback step is not RUNNING with a container id
\* at the moment it is deleted.
C29_RollbackNeverDeletesStarted ==
  [][\A p \in Procs :
       LET c == calls[p] IN
       (/\ c.op = "create" /\ c.pc = "c_rollback"
        /\ Exists(c.id) /\ db'[c.id] = NoRec)
       => ~(db[c.id].status = "RUNNING" /\ db[c.id].cref # 0)]_vars

\* C30: with an engine that changes only through the service's commands
\* and commands that all succeed, once every call of a race between start,
\* stop and reconcile on one instance has returned, the stored status is
\* RUNNING exactly when the container is running.
C30_StatusAgreesWithEngineAfterRace ==
  (Quiescent /\ Exists(1) /\ db[1].cref # 0)
  => (db[1].status = "RUNNING" <=> containers[db[1].cref] = "running")

====
